---- MODULE Spec2Model ----
(***************************************************************************)
(* RF Monitor: the control loop of rfmonitor/gui.py (class FrameMain).     *)
(*                                                                         *)
(* The control thread owns the monitor list, the receiver handle, the      *)
(* export server handle, the position source handle, the last known        *)
(* position, the alert gate and the saved flag.  The scanner thread, the   *)
(* position source thread and the server post events, which the control    *)
(* thread takes from one queue in arrival order (__on_event).              *)
(*                                                                         *)
(* gui.py is the only file of the repository at hand.  PanelMonitor (the   *)
(* monitor's set_level / set_recording and its enable box), Gps, Receive,  *)
(* Server, the toolbar and the constants module are modelled from the      *)
(* specification.  Display-only state (the smoothed spectrum _levels,      *)
(* the title, the dialogs, the duty-cycle periods) is left out: no handler *)
(* modelled here reads it.                                                 *)
(*                                                                         *)
(* Time is a counter of ticks (time.time() of the control thread).          *)
(***************************************************************************)
EXTENDS Integers, Sequences, FiniteSets, Bags, TLC

\* ------------------------------------------------------------- bounds
MaxTicks == 2
MaxMonitors == 2
MaxSignals == 2
MaxQueue == 1
MaxSent == 2
MaxTimers == 2
MaxGpsQueue == 2
MaxAlerts == 3

\* ------------------------------------------- imported constants (gui.py:37-38)
\* Their values live in rfmonitor/constants.py; the model uses small stand-ins
\* in its own units (ticks, dB).
BINS == 2
LEVEL_MIN == -100
GPS_RETRY == 2
ALERT_LENGTH == 2

\* Python's None and an optional value: a sequence of length 0 or 1.
None == <<>>
Some(x) == <<x>>

\* The session starts at StartTime: wall-clock time exceeds ALERT_LENGTH and
\* GPS_RETRY by far, so the first alert request is never inside the gate.
StartTime == ALERT_LENGTH
EndTime == StartTime + MaxTicks
Times == StartTime..EndTime

\* The frequency axis of a scan (self._freqs / event['f']): one entry per bin.
Freqs == [i \in 1..BINS |-> i]

\* Linear powers a scan may carry in event['l'], and log10 on them.
Linear == {1, 10}
Log10(x) == CASE x = 1 -> 0 [] x = 10 -> 1

\* Thresholds a monitor may have (dB).  LEVEL_MIN lies below every one.
Thresholds == {10}

\* Positions a GPS fix may carry.
Locations == {<<51, 0>>, <<52, 1>>}

VARIABLES
    monitors,   \* self._monitors: sequence of monitor records
    receive,    \* self._receive: "none", "running", or "failed" (held, loop ended)
    server,     \* self._server: "alive" or "none"
    sent,       \* records handed to self._server.send, in order
    location,   \* self._location: optional position
    isSaved,    \* self._isSaved
    filename,   \* self._filename: optional name
    toolbar,    \* the toolbar's [freq, gain, cal]
    queue,      \* events posted to the frame, not yet handled
    now,        \* time.time()
    gps,        \* self._gps is not None
    gpsActive,  \* the number of PositionSource instances created and not stopped
    gpsEnabled, \* self._settings.get_gps().enabled
    gpsBorn,    \* the last instance created: [t, fail, by], or None
    gpsFail,    \* handling time of the last GPS_ERROR / GPS_TIMEOUT, 0 if none
    timers,     \* pending wx.CallLater(__start_gps): a bag of due times
    alertLast,  \* self._alertLast
    plays,      \* the last MaxAlerts MON_ALERT handlings: [t, fired, since]
    input,      \* the scan sequence drawn by the run specification (else empty)
    destroyed,  \* self._frame.Destroy() has been called
    last        \* the last handler run and what its set_level calls returned

vars == <<monitors, receive, server, sent, location, isSaved, filename, toolbar,
          queue, now, gps, gpsActive, gpsEnabled, gpsBorn, gpsFail,
          timers, alertLast, plays, input, destroyed, last>>

monVars == <<monitors, receive, server, sent, isSaved>>
gpsVars == <<gps, gpsActive, gpsEnabled, gpsBorn, gpsFail, timers>>
alertVars == <<alertLast, plays>>
fileVars == <<filename, toolbar>>

\* ------------------------------------------------------------ Monitor
\* A new PanelMonitor: Idle, not recording, empty history.
NewMonitor(freq, threshold, enabled, alert) ==
    [frequency |-> freq, threshold |-> threshold, calibrationOffset |-> 0,
     enabled |-> enabled, alert |-> alert, recording |-> FALSE,
     current |-> None, signals |-> <<>>]

IsOpen(m) == m.current # None

\* The open signal closed at time t.
Closed(m, t) ==
    [start |-> m.current[1].start, end |-> t, position |-> m.current[1].position]

\* monitor.set_level(level, timestamp, location): the monitor afterwards, the
\* completed signal returned (or None), and whether an alert is requested.
SetLevel(m, level, t, pos) ==
    LET present == level # None /\ level[1] >= m.threshold + m.calibrationOffset
        close == [mon |-> [m EXCEPT !.current = None,
                                    !.signals = Append(@, Closed(m, t))],
                  signal |-> Some(Closed(m, t)),
                  alert |-> m.alert]
        same == [mon |-> m, signal |-> None, alert |-> FALSE]
    IN  IF level = None
        THEN IF IsOpen(m) THEN close ELSE same
        ELSE IF ~m.recording
        THEN same
        ELSE IF present
        THEN IF IsOpen(m)
             THEN same
             ELSE [mon |-> [m EXCEPT !.current =
                                Some([start |-> t, position |-> pos])],
                   signal |-> None, alert |-> FALSE]
        ELSE IF IsOpen(m) THEN close ELSE same

\* monitor.set_recording(recording, timestamp)
SetRecording(m, recording, t) == [m EXCEPT !.recording = recording]

\* Signals the monitors hold, counting the open ones: the model stops opening
\* signals at MaxSignals.
RECURSIVE Used(_)
Used(ms) ==
    IF ms = <<>> THEN 0
    ELSE Len(Head(ms).signals) + (IF IsOpen(Head(ms)) THEN 1 ELSE 0)
         + Used(Tail(ms))
Fits(ms) == Used(ms) <= MaxSignals

\* ------------------------------------------------------------ events
ScanData(l, t) == [type |-> "SCAN_DATA", l |-> l, f |-> Freqs, timestamp |-> t]
MonAlert == [type |-> "MON_ALERT"]
ServerError == [type |-> "SERVER_ERROR"]
ScanError == [type |-> "SCAN_ERROR"]
GpsEvent(type, loc) == [type |-> type, loc |-> loc]

\* The MON_ALERT events the set_level calls of one handler post, one per
\* completed signal of a monitor with the alert flag set.
RECURSIVE Alerts(_)
Alerts(rs) ==
    IF rs = <<>> THEN <<>>
    ELSE (IF Head(rs).alert THEN <<MonAlert>> ELSE <<>>) \o Alerts(Tail(rs))

\* The record of a handler run: its name and what each set_level call returned
\* (one entry per monitor, None where nothing was returned or no call made).
NoLast == [op |-> "init", ret |-> <<>>]
Did(op, ret) == [op |-> op, ret |-> ret]


Mons(rs) == [i \in 1..Len(rs) |-> rs[i].mon]
Rets(rs) == [i \in 1..Len(rs) |-> rs[i].signal]
Skip(m) == [mon |-> m, signal |-> None, alert |-> FALSE]

\* ------------------------------------------------------------ Init
Init ==
    /\ monitors = <<>>
    /\ receive = "none"
    /\ server = "alive"
    /\ sent = <<>>
    /\ location = None
    /\ isSaved = TRUE
    /\ filename = None
    /\ toolbar = [freq |-> 1, gain |-> 0, cal |-> 0]
    /\ queue = <<>>
    /\ now = StartTime
    /\ gpsEnabled = TRUE
    /\ gps = TRUE
    /\ gpsActive = 1
    /\ gpsBorn = Some([t |-> StartTime, fail |-> 0, by |-> "init"])
    /\ gpsFail = 0
    /\ timers = EmptyBag
    /\ alertLast = 0
    /\ plays = <<>>
    /\ input = <<>>
    /\ destroyed = FALSE
    /\ last = NoLast

\* Time passes.
Tick ==
    /\ now < EndTime
    /\ now' = now + 1
    /\ UNCHANGED <<monVars, gpsVars, alertVars, fileVars, location, queue,
                   input, destroyed, last>>

\* --------------------------------------------------- toolbar callbacks
\* __on_start: a receiver is created unless one is held.
Started(r) == IF r = "none" THEN "running" ELSE r

OnStart ==
    /\ receive' = Started(receive)
    /\ last' = Did("start", <<>>)
    /\ UNCHANGED <<monitors, server, sent, isSaved, gpsVars, alertVars,
                   fileVars, location, queue, now,
                   input, destroyed>>

\* The timestamp __on_rec hands to the monitors.
RecTimestampZero(t) == 0
RecTimestamp(t) == t

\* __on_rec, the loop over the monitors: set_level(None, ...) when recording
\* is switched off, then set_recording.
RecResults(ms, recording, t) ==
    [i \in 1..Len(ms) |->
        LET r == IF ~recording
                 THEN SetLevel(ms[i], None, RecTimestamp(t), None)
                 ELSE Skip(ms[i])
        IN  [r EXCEPT !.mon = SetRecording(r.mon, recording, RecTimestamp(t))]]

OnRec(recording) ==
    LET rs == RecResults(monitors, recording, now)
    IN  /\ Len(queue) + Len(Alerts(rs)) <= MaxQueue
        /\ receive' = (IF recording THEN Started(receive) ELSE receive)
        /\ monitors' = Mons(rs)
        /\ queue' = queue \o Alerts(rs)
        /\ last' = Did(IF recording THEN "rec_on" ELSE "rec_off", Rets(rs))
        /\ UNCHANGED <<server, sent, isSaved, gpsVars, alertVars, fileVars,
                       location, now,
                   input, destroyed>>

\* __on_stop, the loop over the monitors: set_level(LEVEL_MIN, 0, None).
StopDropsOpen(ms) ==
    [i \in 1..Len(ms) |-> Skip([ms[i] EXCEPT !.current = None])]
StopAtThreshold(ms) ==
    [i \in 1..Len(ms) |-> SetLevel(ms[i], Some(ms[i].threshold), 0, None)]
StopResults(ms) ==
    [i \in 1..Len(ms) |-> SetLevel(ms[i], Some(LEVEL_MIN), 0, None)]

OnStop ==
    LET rs == StopResults(monitors)
    IN  /\ Len(queue) + Len(Alerts(rs)) <= MaxQueue
        /\ receive' = "none"
        /\ monitors' = Mons(rs)
        /\ queue' = queue \o Alerts(rs)
        /\ last' = Did(IF last.op \in {"stop", "stop_again"}
                        THEN "stop_again" ELSE "stop", Rets(rs))
        /\ UNCHANGED <<server, sent, isSaved, gpsVars, alertVars, fileVars,
                       location, now,
                   input, destroyed>>

\* __add_monitor: the monitor is appended to the list.
AddMonitor(ms, m) == Append(ms, m)

\* __on_add: a new panel, configured by the user (frequency from the axis).
OnAdd(freq, threshold, enabled, alert) ==
    /\ Len(monitors) < MaxMonitors
    /\ monitors' = AddMonitor(monitors, NewMonitor(freq, threshold, enabled, alert))
    /\ isSaved' = FALSE
    /\ last' = Did("add", <<>>)
    /\ UNCHANGED <<receive, server, sent, gpsVars, alertVars, fileVars,
                   location, queue, now,
                   input, destroyed>>

\* The panel's enable box (PanelMonitor, set_enabled): the flag changes and the
\* rest of the monitor stays as it is (frozen); a monitor enabled again starts
\* from Idle.
SetEnabled(m, enabled) ==
    IF enabled /\ ~m.enabled
    THEN [m EXCEPT !.enabled = TRUE, !.current = None]
    ELSE [m EXCEPT !.enabled = enabled]

\* The user ticks or clears the enable box of panel i.
OnEnable(i, enabled) ==
    /\ i \in 1..Len(monitors)
    /\ monitors[i].enabled # enabled
    /\ monitors' = [monitors EXCEPT ![i] = SetEnabled(@, enabled)]
    /\ last' = Did("enable", <<>>)
    /\ UNCHANGED <<receive, server, sent, isSaved, gpsVars, alertVars,
                   fileVars, location, queue, now,
                   input, destroyed>>

\* ------------------------------------------------------- __on_scan_data
\* numpy.where(freq == event['f'])[0]: the first bin of that frequency.
Index(freq, f) == CHOOSE i \in 1..Len(f) :
                     /\ f[i] = freq
                     /\ \A j \in 1..(i - 1) : f[j] # freq

\* levels = 10 * log10(event['l']), read at the monitor's bin.
Level(event, freq) == 10 * Log10(event.l[Index(freq, event.f)])

\* The timestamp __on_scan_data hands to the monitors.
ScanTimestampZero(event) == 0
ScanTimestamp(event) == event.timestamp

\* The loop with a stale return: a monitor that completes nothing hands back
\* the last signal of its history once more.
ScanResultsResend(ms, event, loc) ==
    [i \in 1..Len(ms) |->
        LET r == IF ms[i].enabled
                 THEN SetLevel(ms[i], Some(Level(event, ms[i].frequency)),
                               event.timestamp, loc)
                 ELSE Skip(ms[i])
        IN  IF r.signal = None /\ r.mon.signals # <<>>
            THEN [r EXCEPT !.signal = Some(r.mon.signals[Len(r.mon.signals)])]
            ELSE r]

\* The loop over the monitors: set_level for every enabled one.
ScanResults(ms, event, loc) ==
    [i \in 1..Len(ms) |->
        IF ms[i].enabled
        THEN SetLevel(ms[i], Some(Level(event, ms[i].frequency)),
                      ScanTimestamp(event), loc)
        ELSE Skip(ms[i])]

\* file.format_recording(freq, signal): the export record.
FormatRecording(freq, signal) ==
    [frequency |-> freq, start |-> signal.start, end |-> signal.end,
     position |-> signal.position]

\* Whether a returned signal is handed to the server.
ForwardedAlways(r, srv) == r.signal # None /\ "end" \in DOMAIN r.signal[1]
Forwarded(r, srv) ==
    r.signal # None /\ "end" \in DOMAIN r.signal[1] /\ srv # "none"

\* The records sent in the reverse of the list's order.
RECURSIVE SendsReversed(_, _)
SendsReversed(rs, srv) ==
    IF rs = <<>> THEN <<>>
    ELSE SendsReversed(Tail(rs), srv) \o
         (IF Forwarded(Head(rs), srv)
          THEN <<FormatRecording(Head(rs).mon.frequency, Head(rs).signal[1])>>
          ELSE <<>>)

\* The records sent to the server, in the order of the monitor list.
RECURSIVE Sends(_, _)
Sends(rs, srv) ==
    IF rs = <<>> THEN <<>>
    ELSE (IF Forwarded(Head(rs), srv)
          THEN <<FormatRecording(Head(rs).mon.frequency, Head(rs).signal[1])>>
          ELSE <<>>) \o Sends(Tail(rs), srv)

Updated(rs) == \E i \in 1..Len(rs) : rs[i].signal # None

OnScanData(event) ==
    LET rs == ScanResults(monitors, event, location)
    IN  /\ Fits(Mons(rs))
        /\ Len(sent) + Len(Sends(rs, server)) <= MaxSent
        /\ Len(Tail(queue)) + Len(Alerts(rs)) <= MaxQueue
        /\ monitors' = Mons(rs)
        /\ sent' = sent \o Sends(rs, server)
        /\ isSaved' = (IF Updated(rs) THEN FALSE ELSE isSaved)
        /\ queue' = Tail(queue) \o Alerts(rs)
        /\ last' = Did("scan", Rets(rs))
        /\ UNCHANGED <<receive, server, gpsVars, alertVars, fileVars,
                       location, now,
                   input, destroyed>>

\* __on_server_error
ServerAfterError(srv) == "none"

OnServerError ==
    /\ server' = ServerAfterError(server)
    /\ queue' = Tail(queue)
    /\ last' = Did("server_error", <<>>)
    /\ UNCHANGED <<monitors, receive, sent, isSaved, gpsVars, alertVars,
                   fileVars, location, now,
                   input, destroyed>>

\* __on_scan_error: a message box, and the start button is enabled.
OnScanError ==
    /\ queue' = Tail(queue)
    /\ last' = Did("scan_error", <<>>)
    /\ UNCHANGED <<monVars, gpsVars, alertVars, fileVars, location, now,
                   input, destroyed>>

\* MON_ALERT: the alert plays when ALERT_LENGTH has passed since the last one.
AlertFiresAlways(t, lastAlert) == TRUE
AlertFires(t, lastAlert) == t - lastAlert >= ALERT_LENGTH

LastN(s, n) == IF Len(s) <= n THEN s ELSE SubSeq(s, Len(s) - n + 1, Len(s))

OnMonAlert ==
    /\ alertLast' = (IF AlertFires(now, alertLast) THEN now ELSE alertLast)
    /\ plays' = LastN(Append(plays, [t |-> now,
                                    fired |-> AlertFires(now, alertLast),
                                    since |-> alertLast]), MaxAlerts)
    /\ queue' = Tail(queue)
    /\ last' = Did("alert", <<>>)
    /\ UNCHANGED <<monVars, gpsVars, fileVars, location, now,
                   input, destroyed>>

\* ----------------------------------------------------------- __on_event
IsNext(type) == queue # <<>> /\ Head(queue).type = type

EvScanData == IsNext("SCAN_DATA") /\ OnScanData(Head(queue))
EvServerError == IsNext("SERVER_ERROR") /\ OnServerError
EvMonAlert == IsNext("MON_ALERT") /\ OnMonAlert
EvScanError == IsNext("SCAN_ERROR") /\ OnScanError

\* ------------------------------------------------------ the producers
\* The scanner thread posts one scan.
ScannerPost(l) ==
    /\ receive = "running"
    /\ Len(queue) < MaxQueue
    /\ queue' = Append(queue, ScanData(l, now))
    /\ UNCHANGED <<monVars, gpsVars, alertVars, fileVars, location, now,
                   input, destroyed, last>>

\* The receiver fails: the scanner thread posts SCAN_ERROR and ends its loop;
\* the control thread still holds the handle.
ScannerFail ==
    /\ receive = "running"
    /\ Len(queue) < MaxQueue
    /\ queue' = Append(queue, ScanError)
    /\ receive' = "failed"
    /\ UNCHANGED <<monitors, server, sent, isSaved, gpsVars, alertVars,
                   fileVars, location, now, input, destroyed, last>>

\* The server's transport fails: it posts SERVER_ERROR, once.
ServerFail ==
    /\ server = "alive"
    /\ \A i \in 1..Len(queue) : queue[i].type # "SERVER_ERROR"
    /\ Len(queue) < MaxQueue
    /\ queue' = Append(queue, ServerError)
    /\ UNCHANGED <<monVars, gpsVars, alertVars, fileVars, location, now,
                   input, destroyed, last>>

\* --------------------------------------------- the monitor specification
NextMon ==
    \/ Tick
    \/ \E f \in 1..BINS, th \in Thresholds, en \in BOOLEAN :
          OnAdd(Freqs[f], th, en, FALSE)
    \/ OnStart
    \/ \E r \in BOOLEAN : OnRec(r)
    \/ OnStop
    \/ \E l \in [1..BINS -> Linear] : ScannerPost(l)
    \/ EvScanData

SpecMon == Init /\ [][NextMon]_vars


\* ------------------------------------------------ the enable specification
\* The monitor specification with enable boxes the user may tick and clear.
NextEnable ==
    \/ Tick
    \/ \E f \in 1..BINS, th \in Thresholds : OnAdd(Freqs[f], th, TRUE, FALSE)
    \/ OnStart
    \/ \E r \in BOOLEAN : OnRec(r)
    \/ OnStop
    \/ \E l \in [1..BINS -> Linear] : ScannerPost(l)
    \/ EvScanData
    \/ \E i \in 1..MaxMonitors, en \in BOOLEAN : OnEnable(i, en)

SpecEnable == Init /\ [][NextEnable]_vars

\* -------------------------------------------------- the scanner specification
\* One kind of monitor and a receiver that may fail.
NextScan ==
    \/ Tick
    \/ OnAdd(Freqs[1], 10, TRUE, FALSE)
    \/ OnStart
    \/ \E r \in BOOLEAN : OnRec(r)
    \/ OnStop
    \/ \E l \in [1..BINS -> Linear] : ScannerPost(l)
    \/ ScannerFail
    \/ EvScanData
    \/ EvScanError

SpecScan == Init /\ [][NextScan]_vars

\* ------------------------------------------------ the export specification
\* The monitor specification with a server whose transport may fail.
NextExport ==
    \/ NextMon
    \/ ServerFail
    \/ EvServerError

SpecExport == Init /\ [][NextExport]_vars

\* --------------------------------------------------- the run specification
\* One enabled, recording, Idle monitor and three scans drawn from the bounded
\* sets; the scanner posts them in order and the control thread handles them.
Run(scans) == [scans |-> scans, posted |-> 0]

InitRun ==
    /\ \E f \in 1..BINS, th \in Thresholds :
          monitors = <<SetRecording(NewMonitor(Freqs[f], th, TRUE, FALSE),
                                    TRUE, StartTime)>>
    /\ receive = "running"
    /\ server = "alive"
    /\ sent = <<>>
    /\ location = None
    /\ isSaved = FALSE
    /\ filename = None
    /\ toolbar = [freq |-> 1, gain |-> 0, cal |-> 0]
    /\ queue = <<>>
    /\ now = EndTime
    /\ gpsEnabled = TRUE
    /\ gps = TRUE
    /\ gpsActive = 1
    /\ gpsBorn = Some([t |-> StartTime, fail |-> 0, by |-> "init"])
    /\ gpsFail = 0
    /\ timers = EmptyBag
    /\ alertLast = 0
    /\ plays = <<>>
    /\ \E l \in [1..3 -> [1..BINS -> Linear]], t \in [1..3 -> Times] :
          /\ t[1] <= t[2] /\ t[2] <= t[3]
          /\ input = Run([k \in 1..3 |-> ScanData(l[k], t[k])])
    /\ destroyed = FALSE
    /\ last = NoLast

\* The scanner thread posts the next scan of the run.
RunPost ==
    /\ input # <<>>
    /\ input.posted < Len(input.scans)
    /\ Len(queue) < MaxQueue
    /\ queue' = Append(queue, input.scans[input.posted + 1])
    /\ input' = [input EXCEPT !.posted = @ + 1]
    /\ UNCHANGED <<monVars, gpsVars, alertVars, fileVars, location, now,
                   destroyed, last>>

NextRun ==
    \/ RunPost
    \/ EvScanData

SpecRun == InitRun /\ [][NextRun]_vars


\* ------------------------------------------------------ PositionSource
\* The handle and the running instances: [gps, active, enabled].
GpsState == [gps |-> gps, active |-> gpsActive, enabled |-> gpsEnabled]

\* A start that creates nothing.
StartGpsNever(g) == g

\* __start_gps: a new instance unless one is held or GPS is disabled.
StartGps(g) ==
    IF ~g.gps /\ g.enabled
    THEN [g EXCEPT !.gps = TRUE, !.active = @ + 1]
    ELSE g

\* A stop that does not look whether an instance is held.
StopGpsUnguarded(g) == [g EXCEPT !.gps = FALSE, !.active = @ - 1]

\* __stop_gps: the held instance is stopped and the handle dropped.
StopGpsDropsHandle(g) == [g EXCEPT !.gps = FALSE]
StopGps(g) ==
    IF g.gps
    THEN [g EXCEPT !.gps = FALSE, !.active = @ - 1]
    ELSE g

\* The delay of the restart wx.CallLater schedules.
RestartDue(t) == t + GPS_RETRY

\* The instance a handler created, if it created one.
Born(g, by) ==
    IF g.active > gpsActive
    THEN Some([t |-> now, fail |-> gpsFail', by |-> by])
    ELSE gpsBorn

\* __restart_gps: stop, then start again after GPS_RETRY.
RestartGps ==
    /\ BagCardinality(timers) < MaxTimers
    /\ gps' = StopGps(GpsState).gps
    /\ gpsActive' = StopGps(GpsState).active
    /\ timers' = timers (+) SetToBag({RestartDue(now)})
    /\ gpsFail' = now
    /\ UNCHANGED <<gpsEnabled, gpsBorn>>

\* The failure handler that also forgets the last known position.
OnGpsFailureForgets(type) ==
    /\ RestartGps
    /\ queue' = Tail(queue)
    /\ last' = Did(type, <<>>)
    /\ location' = None
    /\ UNCHANGED <<monVars, alertVars, fileVars, now,
                   input, destroyed>>

\* GPS_ERROR and GPS_TIMEOUT: status text, restart.
OnGpsFailure(type) ==
    /\ RestartGps
    /\ queue' = Tail(queue)
    /\ last' = Did(type, <<>>)
    /\ UNCHANGED <<monVars, alertVars, fileVars, location, now,
                   input, destroyed>>

\* GPS_WARN: status text only.
OnGpsWarn ==
    /\ queue' = Tail(queue)
    /\ last' = Did("GPS_WARN", <<>>)
    /\ UNCHANGED <<monVars, gpsVars, alertVars, fileVars, location, now,
                   input, destroyed>>

\* GPS_LOC: the last known position.
OnGpsLoc(event) ==
    /\ location' = event.loc
    /\ queue' = Tail(queue)
    /\ last' = Did("GPS_LOC", <<>>)
    /\ UNCHANGED <<monVars, gpsVars, alertVars, fileVars, now,
                   input, destroyed>>

EvGpsError == IsNext("GPS_ERROR") /\ OnGpsFailure("GPS_ERROR")
EvGpsTimeout == IsNext("GPS_TIMEOUT") /\ OnGpsFailure("GPS_TIMEOUT")
EvGpsWarn == IsNext("GPS_WARN") /\ OnGpsWarn
EvGpsLoc == IsNext("GPS_LOC") /\ OnGpsLoc(Head(queue))

\* A delayed __start_gps comes due.
TimerFire(due) ==
    LET g == StartGps(GpsState)
    IN  /\ BagIn(due, timers)
        /\ due <= now
        /\ timers' = timers (-) SetToBag({due})
        /\ gps' = g.gps
        /\ gpsActive' = g.active
        /\ gpsFail' = gpsFail
        /\ gpsBorn' = Born(g, "timer")
        /\ last' = Did("timer", <<>>)
        /\ UNCHANGED <<monVars, alertVars, fileVars, gpsEnabled, location,
                       queue, now,
                   input, destroyed>>

\* __on_gps: the settings dialog; on OK the source is stopped and started.
OnGps(ok, enabled) ==
    LET g == IF ok
             THEN StartGps([StopGps(GpsState) EXCEPT !.enabled = enabled])
             ELSE GpsState
    IN  /\ gps' = g.gps
        /\ gpsActive' = g.active
        /\ gpsEnabled' = g.enabled
        /\ gpsFail' = gpsFail
        /\ gpsBorn' = Born(g, "user")
        /\ last' = Did("gps_dialog", <<>>)
        /\ UNCHANGED <<monVars, alertVars, fileVars, timers, location, queue,
                       now,
                   input, destroyed>>

\* A running instance posts a fix, a warning, an error or a timeout.
GpsPost(type, loc) ==
    /\ gpsActive > 0
    /\ Len(queue) < MaxGpsQueue
    /\ queue' = Append(queue, GpsEvent(type, loc))
    /\ UNCHANGED <<monVars, gpsVars, alertVars, fileVars, location, now,
                   input, destroyed, last>>

NextGps ==
    \/ Tick
    \/ \E loc \in Locations : GpsPost("GPS_LOC", loc)
    \/ \E type \in {"GPS_ERROR", "GPS_WARN", "GPS_TIMEOUT"} : GpsPost(type, None)
    \/ EvGpsError
    \/ EvGpsTimeout
    \/ EvGpsWarn
    \/ EvGpsLoc
    \/ \E due \in StartTime..EndTime : TimerFire(due)
    \/ \E ok \in BOOLEAN, enabled \in BOOLEAN : OnGps(ok, enabled)

SpecGps == Init /\ [][NextGps]_vars

\* The same with the scheduling the toolkit gives: time passes, and a
\* wx.CallLater that is due runs while the main loop runs.
SpecGpsLive ==
    /\ Init
    /\ [][NextGps]_vars
    /\ WF_vars(Tick)
    /\ WF_vars(\E due \in StartTime..EndTime : TimerFire(due))

\* -------------------------------------------------- the session specification
\* One monitor, the scanner and the position source together.
NextSession ==
    \/ Tick
    \/ (monitors = <<>> /\ OnAdd(Freqs[1], 10, TRUE, FALSE))
    \/ OnRec(TRUE)
    \/ OnStop
    \/ \E l \in [1..BINS -> Linear] : ScannerPost(l)
    \/ EvScanData
    \/ \E loc \in Locations : GpsPost("GPS_LOC", loc)
    \/ \E type \in {"GPS_ERROR", "GPS_WARN", "GPS_TIMEOUT"} : GpsPost(type, None)
    \/ EvGpsError
    \/ EvGpsTimeout
    \/ EvGpsWarn
    \/ EvGpsLoc
    \/ \E due \in StartTime..EndTime : TimerFire(due)

SpecSession == Init /\ [][NextSession]_vars

\* ---------------------------------------------------- the alert specification
\* Monitors with and without the alert flag, recording; every completed signal
\* of a flagged monitor posts MON_ALERT.
NextAlert ==
    \/ Tick
    \/ \E al \in BOOLEAN : OnAdd(Freqs[1], 10, TRUE, al)
    \/ OnRec(TRUE)
    \/ \E l \in [1..BINS -> Linear] : ScannerPost(l)
    \/ EvScanData
    \/ EvMonAlert

SpecAlert == Init /\ [][NextAlert]_vars

\* ------------------------------------------------------------- files
\* file.load_recordings(filename): the content, or None for a file that does
\* not parse (ValueError).
Files == {"saved.rfmon", "corrupt.rfmon"}
LoadRecordings(name) ==
    IF name = "saved.rfmon"
    THEN Some([freq |-> 2, gain |-> 1, cal |-> 1,
               monitors |-> <<[NewMonitor(Freqs[1], 10, TRUE, FALSE)
                                 EXCEPT !.signals =
                                    <<[start |-> 1, end |-> 1,
                                       position |-> None]>>]>>])
    ELSE None

\* __save_warning: unsaved changes ask the user whether to go on.
SaveWarning(saved, proceed) == saved \/ proceed

\* __add_monitors: a panel per loaded monitor, with its settings and history.
RECURSIVE AddMonitors(_, _)
AddMonitors(ms, loaded) ==
    IF loaded = <<>> THEN ms
    ELSE AddMonitors(
            AddMonitor(ms, [NewMonitor(Head(loaded).frequency,
                                       Head(loaded).threshold,
                                       Head(loaded).enabled,
                                       Head(loaded).alert)
                              EXCEPT !.signals = Head(loaded).signals]),
            Tail(loaded))

\* FrameMain.open(filename): the state afterwards.
Open(st, name) ==
    LET loaded == LoadRecordings(name)
    IN  IF loaded = None
        THEN st
        ELSE [filename |-> Some(name),
              toolbar |-> [freq |-> loaded[1].freq, gain |-> loaded[1].gain,
                           cal |-> loaded[1].cal],
              monitors |-> AddMonitors(<<>>, loaded[1].monitors),
              isSaved |-> TRUE]

\* __on_open: the save warning, the file dialog, open(), then the saved flag.
OnOpen(proceed, cancel, name) ==
    LET st == [filename |-> filename, toolbar |-> toolbar,
               monitors |-> monitors, isSaved |-> isSaved]
        go == SaveWarning(isSaved, proceed) /\ ~cancel
        new == IF go THEN [Open(st, name) EXCEPT !.isSaved = TRUE] ELSE st
    IN  /\ filename' = new.filename
        /\ toolbar' = new.toolbar
        /\ monitors' = new.monitors
        /\ isSaved' = new.isSaved
        /\ last' = Did(IF ~go THEN "open_cancelled"
                       ELSE IF LoadRecordings(name) = None THEN "open_corrupt"
                       ELSE "open", <<>>)
        /\ UNCHANGED <<receive, server, sent, gpsVars, alertVars, location,
                       queue, now,
                   input, destroyed>>

\* __on_del: the panel is taken out of the list.
Remove(ms, i) == SubSeq(ms, 1, i - 1) \o SubSeq(ms, i + 1, Len(ms))

OnDel(i) ==
    /\ i \in 1..Len(monitors)
    /\ monitors' = Remove(monitors, i)
    /\ isSaved' = FALSE
    /\ last' = Did("del", <<>>)
    /\ UNCHANGED <<receive, server, sent, gpsVars, alertVars, fileVars,
                   location, queue, now,
                   input, destroyed>>

\* __on_clear: after the user's OK every monitor's recorded data is cleared.
OnClear(ok) ==
    /\ monitors' = (IF ok
                    THEN [i \in 1..Len(monitors) |->
                            [monitors[i] EXCEPT !.signals = <<>>,
                                                !.current = None]]
                    ELSE monitors)
    /\ isSaved' = (IF ok THEN FALSE ELSE isSaved)
    /\ last' = Did("clear", <<>>)
    /\ UNCHANGED <<receive, server, sent, gpsVars, alertVars, fileVars,
                   location, queue, now,
                   input, destroyed>>

NextFile ==
    \/ \E f \in 1..BINS, en \in BOOLEAN, al \in BOOLEAN :
          OnAdd(Freqs[f], 10, en, al)
    \/ \E i \in 1..MaxMonitors : OnDel(i)
    \/ \E ok \in BOOLEAN : OnClear(ok)
    \/ \E proceed \in BOOLEAN, cancel \in BOOLEAN, name \in Files :
          OnOpen(proceed, cancel, name)

SpecFile == Init /\ [][NextFile]_vars

\* ------------------------------------------------- the order specification
\* Monitors are added and deleted while the scanner runs and they record.
NextOrder ==
    \/ Tick
    \/ \E f \in 1..BINS, th \in Thresholds : OnAdd(Freqs[f], th, TRUE, FALSE)
    \/ \E i \in 1..MaxMonitors : OnDel(i)
    \/ OnRec(TRUE)
    \/ \E l \in [1..BINS -> Linear] : ScannerPost(l)
    \/ EvScanData

SpecOrder == Init /\ [][NextOrder]_vars

\* ------------------------------------------------------------- exit
\* self._server.stop(): the handle is kept, the server no longer runs.
ServerStopped(srv) == IF srv = "alive" THEN "stopped" ELSE srv

\* __on_exit: the save warning, then __on_stop, the server's stop,
\* __stop_gps and the frame's Destroy().  A pending wx.CallLater is left alone.
OnExit(proceed) ==
    LET go == SaveWarning(isSaved, proceed)
        rs == StopResults(monitors)
        g == StopGps(GpsState)
    IN  /\ go => Len(queue) + Len(Alerts(rs)) <= MaxGpsQueue
        /\ receive' = (IF go THEN "none" ELSE receive)
        /\ monitors' = (IF go THEN Mons(rs) ELSE monitors)
        /\ queue' = (IF go THEN queue \o Alerts(rs) ELSE queue)
        /\ server' = (IF go THEN ServerStopped(server) ELSE server)
        /\ gps' = (IF go THEN g.gps ELSE gps)
        /\ gpsActive' = (IF go THEN g.active ELSE gpsActive)
        /\ destroyed' = go
        /\ last' = Did(IF go THEN "exit" ELSE "exit_cancelled", <<>>)
        /\ UNCHANGED <<sent, isSaved, gpsEnabled, gpsBorn, gpsFail, timers,
                       alertVars, fileVars, location, now, input>>

\* The position source and the exit: while the frame lives, its events are
\* handled and time passes; once the exit handler has returned, a restart
\* that is already due still runs before the main loop ends.
NextExit ==
    \/ (~destroyed /\ NextGps)
    \/ (~destroyed /\ monitors = <<>> /\ OnAdd(Freqs[1], 10, TRUE, FALSE))
    \/ (~destroyed /\ \E proceed \in BOOLEAN : OnExit(proceed))
    \/ (destroyed /\ \E due \in StartTime..EndTime : TimerFire(due))

SpecExit == Init /\ [][NextExit]_vars

\* =================================================== monitor properties
\* A step that leaves the monitor list as long as it was; in the monitor and
\* export specifications these are the steps other than __on_add.
SameList == Len(monitors') = Len(monitors)

\* The history of monitor i grew by the open signal, closed.
Appended(i) ==
    /\ IsOpen(monitors[i])
    /\ Len(monitors'[i].signals) = Len(monitors[i].signals) + 1
    /\ SubSeq(monitors'[i].signals, 1, Len(monitors[i].signals))
          = monitors[i].signals
    /\ LET s == monitors'[i].signals[Len(monitors'[i].signals)]
       IN  /\ s.start = monitors[i].current[1].start
           /\ s.position = monitors[i].current[1].position

\* Some monitor's set_level returned a completed signal in the last handler.
Returned(op) ==
    /\ last.op = op
    /\ \E i \in 1..Len(last.ret) : last.ret[i] # None

\* C1: every monitor has at most one open signal, and every closed signal of
\* every history has start <= end, also when the scanner stop closed it.
C1_StartLeEnd ==
    \A i \in 1..Len(monitors) :
        /\ Len(monitors[i].current) <= 1
        /\ \A k \in 1..Len(monitors[i].signals) :
              monitors[i].signals[k].start <= monitors[i].signals[k].end

\* C3: an update appends a signal to a monitor's history exactly when it moves
\* the monitor from Open to Idle; what is appended is the one open signal,
\* once, after the unchanged earlier history.
C3_AppendIffClose ==
    [][SameList =>
        \A i \in 1..Len(monitors) :
            /\ (monitors'[i].signals # monitors[i].signals)
                  <=> (IsOpen(monitors[i]) /\ ~IsOpen(monitors'[i]))
            /\ (monitors'[i].signals # monitors[i].signals) => Appended(i)]_vars

\* C3's case: a scan dispatch has just closed a signal and returned it.
C3_Witness == Returned("scan")

\* Starts of a history in non-decreasing order.
Ordered(sigs) ==
    \A j, k \in 1..Len(sigs) : j < k => sigs[j].start <= sigs[k].start

C5_RecOffCloses ==
    [][OnRec(FALSE) =>
        \A i \in 1..Len(monitors) :
            IsOpen(monitors[i]) =>
                /\ ~IsOpen(monitors'[i])
                /\ Appended(i)
                /\ monitors'[i].signals[Len(monitors'[i].signals)].end = now]_vars

\* C5's case: record-off has just closed a signal, at the time of the request.
C5_Witness ==
    /\ Returned("rec_off")
    /\ \E i \in 1..Len(last.ret) :
          /\ last.ret[i] # None
          /\ last.ret[i][1].end = now
          /\ ~IsOpen(monitors[i])

\* C9: handling SERVER_ERROR leaves the server reference absent; from then on
\* it stays absent and nothing more is sent, whatever signals complete later.
C9_NoSendAfterFailure ==
    [][/\ EvServerError => server' = "none"
       /\ server = "none" => (server' = "none" /\ sent' = sent)]_vars

\* C9's case: a scan completed a signal after the failure and nothing was sent.
C9_Witness ==
    /\ server = "none"
    /\ Returned("scan")
    /\ sent = <<>>

\* The run's k-th level at the monitor's bin, the pattern high, high, low, the
\* number of scans handled so far and the signal the run should produce.
RunLevel(k) == Level(input.scans[k], monitors[1].frequency)
RunPattern ==
    /\ RunLevel(1) >= monitors[1].threshold
    /\ RunLevel(2) >= monitors[1].threshold
    /\ RunLevel(3) < monitors[1].threshold
RunHandled == input.posted - Len(queue)
RunSignal ==
    [start |-> input.scans[1].timestamp, end |-> input.scans[3].timestamp,
     position |-> None]

\* C2: for an enabled, recording, Idle monitor with threshold T and scans
\* p0 >= T, p1 >= T, p2 < T at t0, t1, t2: the first two updates return no
\* signal and leave the history empty, the third returns the signal
\* {start t0, end t2}, which is then the whole history.
C2_OneSignal ==
    RunPattern =>
        /\ RunHandled \in {1, 2} =>
              /\ last.ret = <<None>>
              /\ monitors[1].signals = <<>>
              /\ IsOpen(monitors[1])
        /\ RunHandled = 3 =>
              /\ last.ret = <<Some(RunSignal)>>
              /\ monitors[1].signals = <<RunSignal>>
              /\ ~IsOpen(monitors[1])

\* C2's case: the three scans of such a run have been handled, at three times.
C2_Witness ==
    /\ RunPattern
    /\ RunHandled = 3
    /\ input.scans[1].timestamp < input.scans[2].timestamp
    /\ input.scans[2].timestamp < input.scans[3].timestamp
    /\ monitors[1].signals = <<RunSignal>>


\* ===================================================== alert properties
\* Alerts that fired among the handlings j..k of the log.
RECURSIVE Fired(_, _)
Fired(j, k) ==
    IF j > k THEN 0
    ELSE (IF plays[j].fired THEN 1 ELSE 0) + Fired(j + 1, k)

C7_OneInstance == gpsActive <= 1

\* C7's case: after a failure and its delayed restart an instance is running
\* again, with another restart still pending.
C7_Witness ==
    /\ gpsActive = 1
    /\ gpsFail > 0
    /\ gpsBorn # None
    /\ gpsBorn[1].by = "timer"
    /\ BagCardinality(timers) > 0

\* C8: an instance created after a GPS_ERROR or GPS_TIMEOUT has been handled
\* is created GPS_RETRY or more after that event.
C8_RetryDelay ==
    (gpsBorn # None /\ gpsBorn[1].fail > 0) =>
        gpsBorn[1].t >= gpsBorn[1].fail + GPS_RETRY

\* The same with the user's reconfiguration left aside: an instance a restart
\* timer created is created GPS_RETRY or more after the last failure handled.
C8_RetryDelayOfTimers ==
    (gpsBorn # None /\ gpsBorn[1].fail > 0 /\ gpsBorn[1].by = "timer") =>
        gpsBorn[1].t >= gpsBorn[1].fail + GPS_RETRY

\* ====================================================== file properties
\* The user goes on to open the file that does not parse.
OpenCorrupt ==
    \E proceed \in BOOLEAN :
        /\ SaveWarning(isSaved, proceed)
        /\ OnOpen(proceed, FALSE, "corrupt.rfmon")

\* C10: opening a file that does not parse leaves the monitor list, the file
\* name, the toolbar's frequency, gain and calibration and the saved flag as
\* they were.
C10_CorruptOpenNoChange ==
    [][OpenCorrupt => UNCHANGED <<monitors, filename, toolbar, isSaved>>]_vars

\* ==================================================== enable properties
\* A handler that calls the monitors' set_level: a scan dispatch, a record
\* on/off request, a scanner stop request.
Updates == EvScanData \/ OnStop \/ (\E r \in BOOLEAN : OnRec(r))

\* C11: a disabled monitor is frozen: no scan dispatch, record on/off request
\* or scanner stop request changes its open signal or its history.
C11_DisabledFrozen ==
    [][Updates =>
        \A i \in 1..Len(monitors) :
            ~monitors[i].enabled =>
                /\ monitors'[i].current = monitors[i].current
                /\ monitors'[i].signals = monitors[i].signals]_vars

\* ==================================================== export properties
\* The history of monitor i grew in this step, and the record of its newest
\* signal.
Grew(i) == Len(monitors'[i].signals) > Len(monitors[i].signals)
Newest(i) ==
    FormatRecording(monitors'[i].frequency,
                    monitors'[i].signals[Len(monitors'[i].signals)])

\* C12: whenever a signal is closed and appended to a history while the server
\* is alive (by a scan dispatch, a record-off or a scanner stop), its record
\* is handed to the server in that step.
C12_CompletedForwarded ==
    [][(SameList /\ server = "alive") =>
        \A i \in 1..Len(monitors) :
            Grew(i) =>
                \E k \in (Len(sent) + 1)..Len(sent') : sent'[k] = Newest(i)]_vars

\* How often record r was sent, and the closed signals of the histories that
\* format to r.
TimesSent(r) == Cardinality({k \in 1..Len(sent) : sent[k] = r})
ClosedAs(r) ==
    UNION {{<<i, k>> : k \in {j \in 1..Len(monitors[i].signals) :
                FormatRecording(monitors[i].frequency,
                                monitors[i].signals[j]) = r}} :
           i \in 1..Len(monitors)}

\* C13: no completed signal is sent more than once: every record was sent at
\* most as often as the histories hold a closed signal it is the record of.
C13_AtMostOnce ==
    \A k \in 1..Len(sent) : TimesSent(sent[k]) <= Cardinality(ClosedAs(sent[k]))

\* C13's case: a monitor completed two signals and each was sent, once.
C13_Witness ==
    \E i \in 1..Len(monitors) :
        /\ Len(monitors[i].signals) = 2
        /\ monitors[i].signals[1] # monitors[i].signals[2]
        /\ sent = <<FormatRecording(monitors[i].frequency, monitors[i].signals[1]),
                    FormatRecording(monitors[i].frequency, monitors[i].signals[2])>>

\* =================================================== scanner properties
\* The SCAN_ERROR of the failed scanner has been handled.
ErrorHandled ==
    /\ receive = "failed"
    /\ \A k \in 1..Len(queue) : queue[k].type # "SCAN_ERROR"

\* C14: handling SCAN_ERROR does not restart the scanner, and a start request
\* after it, with no stop request in between, gives a running scanner.
C14_StartAfterError ==
    /\ [][EvScanError => receive' = receive]_vars
    /\ [][(ErrorHandled /\ OnStart) => receive' = "running"]_vars

\* C15: once the scanner stop request has returned, no SCAN_DATA is dispatched
\* to the monitors until the next start, one queued before the stop included;
\* no monitor opens or closes a signal in between.
C15_NoLateEvents ==
    /\ [][EvScanData => receive # "none"]_vars
    /\ [][(receive = "none" /\ receive' = "none" /\ SameList) =>
            \A i \in 1..Len(monitors) :
                /\ monitors'[i].current = monitors[i].current
                /\ monitors'[i].signals = monitors[i].signals]_vars

\* ============================================ position source recovery
\* A GPS_ERROR or GPS_TIMEOUT has just been handled with the GPS setting
\* enabled; its restart falls within the time the model covers.
FailureHandled ==
    /\ last.op \in {"GPS_ERROR", "GPS_TIMEOUT"}
    /\ gpsEnabled
    /\ RestartDue(gpsFail) <= EndTime

\* C16: when a GPS_ERROR or GPS_TIMEOUT is handled with the GPS setting
\* enabled, and the restart timer fires in the end, a PositionSource instance
\* is active again later on (unless the user disables GPS meanwhile).
C16_FailureRecovered ==
    FailureHandled ~> ((gps /\ gpsActive = 1) \/ ~gpsEnabled)

\* C16's case: the restart timer of a handled failure has just created the
\* new instance.
C16_Witness ==
    /\ last.op = "timer"
    /\ gpsEnabled
    /\ gps
    /\ gpsActive = 1
    /\ gpsFail > 0
    /\ gpsBorn # None
    /\ gpsBorn[1] = [t |-> now, fail |-> gpsFail, by |-> "timer"]
    /\ now = RestartDue(gpsFail)

\* ===================================================== order properties
\* The records of the monitors i, i + 1, ... whose history grew in this step,
\* in the order of the list.
RECURSIVE InOrder(_)
InOrder(i) ==
    IF i > Len(monitors) THEN <<>>
    ELSE (IF Grew(i) THEN <<Newest(i)>> ELSE <<>>) \o InOrder(i + 1)

\* C17: the monitor list is in registration order (a new monitor goes to the
\* end, a deletion keeps the order of the others), and a scan dispatch sends
\* the records of the signals it completed in the order of the list.
C17_RegistrationOrder ==
    /\ [][Len(monitors') > Len(monitors) =>
            /\ Len(monitors') = Len(monitors) + 1
            /\ SubSeq(monitors', 1, Len(monitors)) = monitors]_vars
    /\ [][Len(monitors') < Len(monitors) =>
            \E i \in 1..Len(monitors) :
                /\ Len(monitors') = Len(monitors) - 1
                /\ \A k \in 1..Len(monitors') :
                      monitors'[k] = monitors[IF k < i THEN k ELSE k + 1]]_vars
    /\ [][EvScanData => sent' = sent \o InOrder(1)]_vars

\* C17's case: two monitors, the one added first at the higher frequency,
\* completed a signal in the same scan; both records were sent.
C17_Witness ==
    /\ Len(monitors) = 2
    /\ monitors[1].frequency > monitors[2].frequency
    /\ last.op = "scan"
    /\ \A i \in 1..2 : last.ret[i] # None
    /\ Len(sent) = 2
    /\ sent[1].frequency = monitors[1].frequency
    /\ sent[2].frequency = monitors[2].frequency

\* ================================================== position properties
\* C18: the last known position starts absent, a GPS_LOC event sets it to the
\* location the event carries, no other step changes it, and a scan dispatch
\* hands it to the monitors: a signal the dispatch opens carries it.
C18_LastKnownPosition ==
    /\ location = None
    /\ [][IF EvGpsLoc
          THEN location' = Head(queue).loc
          ELSE location' = location]_vars
    /\ [][EvScanData =>
            \A i \in 1..Len(monitors) :
                (~IsOpen(monitors[i]) /\ IsOpen(monitors'[i])) =>
                    monitors'[i].current[1].position = location]_vars

\* C18's case: with the position source stopped after a failure, a scan
\* dispatch has just opened a signal, which carries the last fix.
C18_Witness ==
    /\ last.op = "scan"
    /\ location \in Locations
    /\ gpsFail > 0
    /\ ~gps
    /\ \E i \in 1..Len(monitors) :
          /\ IsOpen(monitors[i])
          /\ monitors[i].current[1].position = location
          /\ monitors[i].signals = <<>>

\* ====================================================== stop properties
\* C19: a scanner stop request right after another changes nothing and
\* completes nothing, a second stop of the position source changes nothing,
\* and stopping the position source twice gives what stopping it once gives.
C19_StopIdempotent ==
    /\ [][(last.op \in {"stop", "stop_again"} /\ OnStop) =>
            /\ UNCHANGED <<monitors, receive, server, sent, isSaved, queue,
                           gpsVars, location>>
            /\ \A i \in 1..Len(last'.ret) : last'.ret[i] = None]_vars
    /\ [][(~gps /\ (EvGpsError \/ EvGpsTimeout)) =>
            (gps' = gps /\ gpsActive' = gpsActive)]_vars
    /\ [](StopGps(StopGps(GpsState)) = StopGps(GpsState))

\* C19's case: the scanner was stopped twice in a row, the first stop having
\* closed a signal, and the position source was stopped twice with no start
\* in between (two restarts pending, no instance created since the first).
C19_Witness ==
    /\ last.op = "stop_again"
    /\ receive = "none"
    /\ \E i \in 1..Len(monitors) :
          /\ monitors[i].signals # <<>>
          /\ monitors[i].signals[Len(monitors[i].signals)].end = 0
    /\ ~gps
    /\ gpsActive = 0
    /\ BagCardinality(timers) = 2
    /\ gpsBorn[1].by = "init"

\* ====================================================== exit properties
\* C20: once the exit has completed (frame destroyed) no PositionSource
\* instance is active, also when a restart was pending at the exit.
C20_NoInstanceAfterExit == destroyed => (~gps /\ gpsActive = 0)

====
